---- MODULE Spec2Model ----
(***************************************************************************)
(* Model of the config-lib registry: typed configuration variables with a  *)
(* validator pipeline (src/src/include/config/validator), the variable     *)
(* class (src/src/lib/variable.h) and the registry with its JSON           *)
(* persistence (src/src/include/config/registry.h).                        *)
(*                                                                         *)
(* C++ strings that the code inspects character by character (variable    *)
(* names, raw values) are sequences of one-character strings; file paths   *)
(* and message fragments, which the code only concatenates, are strings,   *)
(* and a message a + b + c is the tuple <<a, b, c>> of its parts.  A value *)
(* of the C++ type T is the record [T |-> v], so that values of different  *)
(* types are different and can be told apart: [int |-> 1], [bool |-> TRUE],*)
(* [string |-> <<"x">>].  A JSON value is tagged with its kind the same    *)
(* way: [number |-> 1], [object |-> members].                              *)
(***************************************************************************)
EXTENDS Integers, Sequences, FiniteSets, TLC

VARIABLES m_Variables, m_ConfigPath, files, last, pc, call, m_Mutex, run

vars == <<m_Variables, m_ConfigPath, files, last, pc, call, m_Mutex, run>>

-----------------------------------------------------------------------------
(* Bounds *)

\* most variables ever registered in one run
MaxVars == 2

\* number of client threads of the threaded specification
NThreads == 2

\* most string validators, and most typed validators, added to one pipeline
MaxStages == 2

-----------------------------------------------------------------------------
(* std::string helpers *)

npos == -1

\* s.find(c, from): 0-based index of the first c at or after from
RECURSIVE Find(_, _, _)
Find(s, c, from) ==
    IF from >= Len(s) THEN npos
    ELSE IF s[from + 1] = c THEN from
    ELSE Find(s, c, from + 1)

\* s.rfind(c): 0-based index of the last c
RECURSIVE RFindFrom(_, _, _)
RFindFrom(s, c, i) ==
    IF i < 0 THEN npos
    ELSE IF s[i + 1] = c THEN i
    ELSE RFindFrom(s, c, i - 1)

RFind(s, c) == RFindFrom(s, c, Len(s) - 1)

\* s.substr(pos, count), count clipped to the end of s
Substr(s, pos, count) ==
    SubSeq(s, pos + 1, IF pos + count > Len(s) THEN Len(s) ELSE pos + count)

\* s.substr(pos)
SubstrFrom(s, pos) == SubSeq(s, pos + 1, Len(s))

Digits == <<"0", "1", "2", "3", "4", "5", "6", "7", "8", "9">>

IsDigit(c) == \E i \in 1..10 : Digits[i] = c

DigitVal(c) == (CHOOSE i \in 1..10 : Digits[i] = c) - 1

\* std::isspace in the "C" locale (\v has no TLA+ escape and is left out)
IsSpace(c) == c \in {" ", "\t", "\n", "\r", "\f"}

RECURSIVE UDec(_)
UDec(n) ==
    IF n < 10 THEN <<Digits[n + 1]>>
    ELSE UDec(n \div 10) \o <<Digits[(n % 10) + 1]>>

\* std::to_string(int)
to_string(n) == IF n < 0 THEN <<"-">> \o UDec(0 - n) ELSE UDec(n)

-----------------------------------------------------------------------------
(* Results: std::expected<T, std::string> and std::optional<T> *)

Ok(v) == [ok |-> TRUE, v |-> v]

Err(e) == [ok |-> FALSE, e |-> e]

Void == "void"

Some(v) == [has |-> TRUE, v |-> v]

Nullopt == [has |-> FALSE]

-----------------------------------------------------------------------------
(* Validator builder stages: src/src/include/config/validator/builder.h *)

RECURSIVE EraseTrailingSpace(_)
EraseTrailingSpace(s) ==
    IF s # <<>> /\ IsSpace(s[Len(s)]) THEN EraseTrailingSpace(SubSeq(s, 1, Len(s) - 1))
    ELSE s

RECURSIVE EraseLeadingSpace(_)
EraseLeadingSpace(s) ==
    IF s # <<>> /\ IsSpace(s[1]) THEN EraseLeadingSpace(Tail(s))
    ELSE s

\* the Trim() string validator
TrimStage(value) == Ok(EraseLeadingSpace(EraseTrailingSpace(value)))

\* the NotEmpty() string validator
NotEmptyStage(value) ==
    IF value = <<>> THEN Err(<<"Value should not be empty">>) ELSE Ok(value)

StringStage(kind, value) ==
    IF kind = "Trim" THEN TrimStage(value) ELSE NotEmptyStage(value)

\* the longest prefix of s made of digits
RECURSIVE DigitPrefix(_)
DigitPrefix(s) ==
    IF s # <<>> /\ IsDigit(s[1]) THEN <<s[1]>> \o DigitPrefix(Tail(s)) ELSE <<>>

RECURSIVE DecValue(_, _)
DecValue(s, acc) ==
    IF s = <<>> THEN acc ELSE DecValue(Tail(s), acc * 10 + DigitVal(s[1]))

\* std::stoi(value): skips leading white space, takes an optional sign and
\* the longest run of digits and ignores what follows; it throws
\* std::invalid_argument (no digits) or std::out_of_range (not an int)
StoI(value) ==
    LET s    == EraseLeadingSpace(value)
        neg  == s # <<>> /\ s[1] = "-"
        body == IF s # <<>> /\ s[1] \in {"-", "+"} THEN Tail(s) ELSE s
        ds   == DigitPrefix(body)
        n    == IF neg THEN 0 - DecValue(ds, 0) ELSE DecValue(ds, 0)
    IN  IF ds = <<>> THEN [threw |-> TRUE]
        ELSE IF n > 2147483647 \/ n < 0 - 2147483647 - 1 THEN [threw |-> TRUE]
        ELSE [threw |-> FALSE, v |-> n]

\* the Integer() parser for T = int
IntegerParser(value) ==
    IF value = <<>> THEN Err(<<"String should not be empty">>)
    ELSE IF StoI(value).threw THEN Err(<<"Failed to parse integer">>)
    ELSE Ok(StoI(value).v)

\* the Boolean() parser
BooleanParser(value) ==
    IF value = <<>> THEN Err(<<"String should not be empty">>)
    ELSE IF value = <<"1">> \/ value = <<"t", "r", "u", "e">> THEN Ok(TRUE)
    ELSE IF value = <<"0">> \/ value = <<"f", "a", "l", "s", "e">> THEN Ok(FALSE)
    ELSE Err(<<"Unsupported bool value (1/true/0/false)">>)

Parse(kind, value) ==
    IF kind = "Integer" THEN IntegerParser(value) ELSE BooleanParser(value)

\* the Range(minValue, maxValue) typed validator
RangeStage(minValue, maxValue, value) ==
    IF value < minValue \/ value > maxValue
    THEN Err(<<"Value should be >=", to_string(minValue), " and <=", to_string(maxValue)>>)
    ELSE Ok(value)

\* a typed validator added with CustomTyped(): [add |-> n] stands for the
\* client's lambda [](int value) { return value + n; }
CustomTypedStage(add, value) == Ok(value + add)

TypedStage(stage, value) ==
    IF "add" \in DOMAIN stage THEN CustomTypedStage(stage.add, value)
    ELSE RangeStage(stage.min, stage.max, value)

\* A pipeline is [sv, parser, tv]: the string validators, the parser
\* ("none" while SetParser was never called) and the typed validators.
EmptyPipeline == [sv |-> <<>>, parser |-> "none", tv |-> <<>>]

AddStringValidator(p, kind) == [p EXCEPT !.sv = Append(@, kind)]

SetParser(p, kind) == [p EXCEPT !.parser = kind]

AddTypedValidator(p, stage) == [p EXCEPT !.tv = Append(@, stage)]

\* Validators::IntRanged / StringNonEmpty / Boolean
IntRanged(Min, Max) ==
    AddTypedValidator(
        SetParser(AddStringValidator(AddStringValidator(EmptyPipeline, "Trim"), "NotEmpty"),
                  "Integer"),
        [min |-> Min, max |-> Max])

StringNonEmpty == AddStringValidator(AddStringValidator(EmptyPipeline, "Trim"), "NotEmpty")

BooleanShortcut ==
    SetParser(AddStringValidator(AddStringValidator(EmptyPipeline, "Trim"), "NotEmpty"),
              "Boolean")

-----------------------------------------------------------------------------
(* ValidatorPipeline::operator(): src/src/include/config/validator/pipeline.h *)

\* the loop over m_StringValidators, from the i-th on
RECURSIVE RunStringValidators(_, _, _)
RunStringValidators(sv, i, value) ==
    IF i > Len(sv) THEN Ok(value)
    ELSE LET result == StringStage(sv[i], value)
         IN  IF ~result.ok THEN Err(result.e)
             ELSE RunStringValidators(sv, i + 1, result.v)

\* the loop over m_TypedValidators, from the i-th on
RECURSIVE RunTypedValidators(_, _, _)
RunTypedValidators(tv, i, finalValue) ==
    IF i > Len(tv) THEN Ok(finalValue)
    ELSE LET result == TypedStage(tv[i], finalValue)
         IN  IF ~result.ok THEN result
             ELSE RunTypedValidators(tv, i + 1, result.v)

RunPipeline(p, value) ==
    LET str == RunStringValidators(p.sv, 1, value)
    IN  IF ~str.ok THEN str
        ELSE IF p.parser = "none" THEN Err(<<"No parser configured">>)
        ELSE LET parsed == Parse(p.parser, str.v)
             IN  IF ~parsed.ok THEN parsed
                 ELSE RunTypedValidators(p.tv, 1, parsed.v)

-----------------------------------------------------------------------------
(* CConfigVariable<T>: src/src/lib/variable.h *)

\* a value v of the C++ type T, and back
Box(T, v) ==
    IF T = "int" THEN [int |-> v] ELSE IF T = "bool" THEN [bool |-> v] ELSE [string |-> v]

Unbox(T, boxed) ==
    IF T = "int" THEN boxed.int ELSE IF T = "bool" THEN boxed.bool ELSE boxed.string

\* The constructor: the value starts as the default.
CConfigVariable(T, Name, DefaultValue, Validator, Description) ==
    [type          |-> T,
     m_Name        |-> Name,
     m_Value       |-> Box(T, DefaultValue),
     m_DefaultValue |-> Box(T, DefaultValue),
     m_Description |-> Description,
     m_Validator   |-> Validator]

\* The fifth constructor argument of the CONFIG_*_READONLY macros; the
\* variable class under src/ has no such argument.
WithReadOnly(var, readOnly) == var @@ [m_ReadOnly |-> readOnly]

ReadOnly(var) == var.m_ReadOnly

\* the rendering shared by ValueAsString and DefaultValueAsString
Render(T, v) ==
    IF T = "string" THEN v
    ELSE IF T = "bool" THEN (IF v THEN <<"t", "r", "u", "e">> ELSE <<"f", "a", "l", "s", "e">>)
    ELSE to_string(v)

ValueAsString(var) == Render(var.type, Unbox(var.type, var.m_Value))

DefaultValueAsString(var) == Render(var.type, Unbox(var.type, var.m_DefaultValue))

\* TrySet with the value cleared before validation and put back only on
\* success
TrySetClearsFirst(var, Value) ==
    LET result == RunPipeline(var.m_Validator, Value)
    IN  IF result.ok THEN [var |-> var, ret |-> Ok(Void)]
        ELSE [var |-> [var EXCEPT !.m_Value = var.m_DefaultValue], ret |-> Err(result.e)]

\* TrySet: [var, ret], the variable after the call and the value returned
TrySet(var, Value) ==
    LET result == RunPipeline(var.m_Validator, Value)
    IN  IF result.ok THEN [var |-> var, ret |-> Ok(Void)]
        ELSE [var |-> var, ret |-> Err(result.e)]

\* Reset with the assignment the wrong way round
ResetSwapped(var) == [var EXCEPT !.m_DefaultValue = var.m_Value]

Reset(var) == [var EXCEPT !.m_Value = var.m_DefaultValue]

-----------------------------------------------------------------------------
(* The variable's JSON side, used by the registry's persistence.  The      *)
(* variable class with these members is not among the sources; they follow *)
(* the specification (sections 4.3 and 4.4).                               *)

JsonKind(T) ==
    IF T = "string" THEN "string" ELSE IF T = "bool" THEN "boolean" ELSE "number"

\* a JSON value of the given kind
JLeaf(kind, v) ==
    IF kind = "number" THEN [number |-> v]
    ELSE IF kind = "boolean" THEN [boolean |-> v]
    ELSE [string |-> v]

\* the value in its native typed form
ValueAsJson(var) == JLeaf(JsonKind(var.type), Unbox(var.type, var.m_Value))

\* Typed set from a document value: the semantics of TrySet (read-only
\* fails, validation decides, success stores) on an already typed value,
\* so only the typed stage of the pipeline runs.  LoadFromFile calls it as
\* TrySetJson(*value, true); what the second argument selects is fixed by
\* the class that is not among the sources, and the specification gives the
\* load the semantics of TrySet without exception.
TrySetJson(var, value) ==
    IF ReadOnly(var) THEN [var |-> var, ret |-> Err(<<"read-only">>)]
    ELSE IF JsonKind(var.type) \notin DOMAIN value
    THEN [var |-> var, ret |-> Err(<<"type mismatch">>)]
    ELSE LET result == RunTypedValidators(var.m_Validator.tv, 1, value[JsonKind(var.type)])
         IN  IF result.ok
             THEN [var |-> [var EXCEPT !.m_Value = Box(var.type, result.v)], ret |-> Ok(Void)]
             ELSE [var |-> var, ret |-> Err(result.e)]

-----------------------------------------------------------------------------
(* nlohmann::json values: an object is [object |-> members], a function   *)
(* from keys to values.  A pointer to a node of a document is the sequence *)
(* of keys leading to the node.                                            *)

JObject(m) == [object |-> m]

EmptyObject == JObject(<<>>)

IsObject(node) == "object" \in DOMAIN node

\* json::contains(key): false on anything that is not an object
Contains(node, key) == IsObject(node) /\ key \in DOMAIN node.object

\* object[key] = val
Put(node, key, val) ==
    JObject([x \in DOMAIN node.object \cup {key} |->
                IF x = key THEN val ELSE node.object[x]])

RECURSIVE NodeAt(_, _)
NodeAt(root, ptr) ==
    IF ptr = <<>> THEN root ELSE NodeAt(root.object[Head(ptr)], Tail(ptr))

\* (*parent)[key] = val, where ptr is parent followed by key
RECURSIVE Assign(_, _, _)
Assign(root, ptr, val) ==
    IF Len(ptr) = 1 THEN Put(root, ptr[1], val)
    ELSE Put(root, ptr[1], Assign(root.object[ptr[1]], Tail(ptr), val))

-----------------------------------------------------------------------------
(* CConfigRegistry json helpers: src/src/include/config/registry.h *)

\* the while loop of GetNestedJson; the result is the document and `current`
RECURSIVE GetNestedJsonLoop(_, _, _, _, _)
GetNestedJsonLoop(root, path, start, end, current) ==
    IF end = npos THEN [root |-> root, current |-> current]
    ELSE LET part == Substr(path, start, end - start)
             cur  == NodeAt(root, current)
             made == IF ~Contains(cur, part) \/ ~IsObject(cur.object[part])
                     THEN Assign(root, Append(current, part), EmptyObject)
                     ELSE root
         IN  GetNestedJsonLoop(made, path, end + 1, Find(path, ".", end + 1),
                               Append(current, part))

GetNestedJson(root, path) == GetNestedJsonLoop(root, path, 0, Find(path, ".", 0), <<>>)

SetNestedValue(root, path, value) ==
    LET lastDot == RFind(path, ".")
    IN  IF lastDot = npos THEN Assign(root, <<path>>, value)
        ELSE LET parentPath == Substr(path, 0, lastDot)
                 key        == SubstrFrom(path, lastDot + 1)
                 parent     == GetNestedJson(root, parentPath)
             IN  Assign(parent.root, Append(parent.current, key), value)

RECURSIVE GetNestedValueLoop(_, _, _, _)
GetNestedValueLoop(current, path, start, end) ==
    IF end = npos
    THEN LET finalKey == SubstrFrom(path, start)
         IN  IF ~Contains(current, finalKey) THEN Nullopt
             ELSE Some(current.object[finalKey])
    ELSE LET part == Substr(path, start, end - start)
         IN  IF ~Contains(current, part) THEN Nullopt
             ELSE GetNestedValueLoop(current.object[part], path, end + 1,
                                     Find(path, ".", end + 1))

GetNestedValue(root, path) == GetNestedValueLoop(root, path, 0, Find(path, ".", 0))

\* the entry SetNestedValue assigns for a name: the pointer to `parent`
\* followed by `key`
SavePtr(path) ==
    LET lastDot == RFind(path, ".")
    IN  IF lastDot = npos THEN <<path>>
        ELSE Append(GetNestedJson(EmptyObject, Substr(path, 0, lastDot)).current,
                    SubstrFrom(path, lastDot + 1))

\* the entry GetNestedValue reads for a name: the keys it descends through
\* followed by finalKey
RECURSIVE LookupPtrLoop(_, _, _)
LookupPtrLoop(path, start, end) ==
    IF end = npos THEN <<SubstrFrom(path, start)>>
    ELSE <<Substr(path, start, end - start)>>
         \o LookupPtrLoop(path, end + 1, Find(path, ".", end + 1))

LookupPtr(path) == LookupPtrLoop(path, 0, Find(path, ".", 0))

-----------------------------------------------------------------------------
(* CConfigRegistry operations: src/src/include/config/registry.h.  Each    *)
(* operator is the body of one public operation on the registry's fields,  *)
(* passed in and returned explicitly.                                      *)

\* Register that stores the new variable over the registered one
RegisterOverwrites(variables, var) ==
    [vars |-> [n \in DOMAIN variables \cup {var.m_Name} |->
                  IF n = var.m_Name THEN var ELSE variables[n]],
     ret  |-> var.m_Name \notin DOMAIN variables]

\* Register<T>(var): [vars, ret]
Register(variables, var) ==
    LET name == var.m_Name
    IN  IF name \in DOMAIN variables THEN [vars |-> variables, ret |-> FALSE]
        ELSE [vars |-> [n \in DOMAIN variables \cup {name} |->
                           IF n = name THEN var ELSE variables[n]],
              ret  |-> TRUE]

\* Get with an unchecked cast in place of dynamic_cast
GetUnchecked(variables, T, name) ==
    IF name \notin DOMAIN variables THEN Nullopt
    ELSE Some(variables[name].m_Value)

\* Get<T>(name): dynamic_cast succeeds only on a CConfigVariable<T>
Get(variables, T, name) ==
    IF name \notin DOMAIN variables THEN Nullopt
    ELSE IF variables[name].type # T THEN Nullopt
    ELSE Some(variables[name].m_Value)

\* Set(name, value): [vars, ret]
Set(variables, name, value) ==
    IF name \notin DOMAIN variables
    THEN [vars |-> variables, ret |-> Err(<<"Variable '", name, "' not found">>)]
    ELSE LET r == TrySet(variables[name], value)
         IN  [vars |-> [variables EXCEPT ![name] = r.var], ret |-> r.ret]

Exists(variables, name) == name \in DOMAIN variables

GetAsString(variables, name) ==
    IF name \notin DOMAIN variables THEN Nullopt
    ELSE Some(ValueAsString(variables[name]))

\* Reset(name): [vars, ret]
RegistryReset(variables, name) ==
    IF name \notin DOMAIN variables THEN [vars |-> variables, ret |-> FALSE]
    ELSE [vars |-> [variables EXCEPT ![name] = Reset(@)], ret |-> TRUE]

ResetAll(variables) == [n \in DOMAIN variables |-> Reset(variables[n])]

\* the type tag reported by GetInfo (TypeString is not among the sources)
TypeString(var) == var.type

GetInfo(variables, name) ==
    IF name \notin DOMAIN variables THEN Nullopt
    ELSE LET var == variables[name]
         IN  Some([readonly      |-> ReadOnly(var),
                   name          |-> var.m_Name,
                   type          |-> TypeString(var),
                   value         |-> ValueAsString(var),
                   default_value |-> DefaultValueAsString(var),
                   description   |-> var.m_Description])

-----------------------------------------------------------------------------
(* Files.  A file holds NoFile (it does not exist), Malformed (text that   *)
(* is not JSON) or a document.  Only the paths in FilePaths can be opened. *)

FilePaths == {"config.json"}

NoFile == [nofile |-> TRUE]

Malformed == [malformed |-> TRUE]

\* an iteration order of the unordered_map: any arrangement of its keys
Orders(variables) ==
    {o \in [1..Cardinality(DOMAIN variables) -> DOMAIN variables] :
        \A i, j \in DOMAIN o : i # j => o[i] # o[j]}

\* the loop of SaveToFile over m_Variables, from the i-th entry on
RECURSIVE SaveLoop(_, _, _, _)
SaveLoop(variables, order, i, root) ==
    IF i > Len(order) THEN root
    ELSE SaveLoop(variables, order, i + 1,
                  SetNestedValue(root, order[i], ValueAsJson(variables[order[i]])))

\* SaveToFile(filepath): [files, ret]
SaveToFile(variables, fs, filepath, order) ==
    LET root == SaveLoop(variables, order, 1, EmptyObject)
    IN  IF filepath \notin FilePaths
        THEN [files |-> fs, ret |-> Err(<<"Failed to open file for writing: ", filepath>>)]
        ELSE [files |-> [fs EXCEPT ![filepath] = root], ret |-> Ok(Void)]

\* the loop of LoadFromFile over m_Variables: [vars, errors]
RECURSIVE LoadLoop(_, _, _, _, _)
LoadLoop(variables, root, order, i, errors) ==
    IF i > Len(order) THEN [vars |-> variables, errors |-> errors]
    ELSE LET name  == order[i]
             value == GetNestedValue(root, name)
         IN  IF ~value.has THEN LoadLoop(variables, root, order, i + 1, errors)
             ELSE LET result == TrySetJson(variables[name], value.v)
                  IN  LoadLoop([variables EXCEPT ![name] = result.var], root, order, i + 1,
                               IF ~result.ret.ok
                               THEN Append(errors, <<name, ": ", result.ret.e>>)
                               ELSE errors)

\* the aggregated message built from the collected errors
ErrorMsg(errors) ==
    <<"Some variables failed to load:\n",
      [i \in DOMAIN errors |-> <<" - ", errors[i], "\n">>]>>

\* LoadFromFile that drops every assignment when one entry failed
LoadFromFileAllOrNothing(variables, fs, filepath, order) ==
    IF filepath \notin FilePaths \/ fs[filepath] = NoFile
    THEN [vars |-> variables, ret |-> Err(<<"File doesn't exist">>)]
    ELSE IF fs[filepath] = Malformed
    THEN [vars |-> variables, ret |-> Err(<<"JSON parse error: ", "what">>)]
    ELSE LET done == LoadLoop(variables, fs[filepath], order, 1, <<>>)
         IN  IF done.errors # <<>>
             THEN [vars |-> variables, ret |-> Err(ErrorMsg(done.errors))]
             ELSE [vars |-> done.vars, ret |-> Ok(Void)]

\* LoadFromFile(filepath): [vars, ret]
LoadFromFile(variables, fs, filepath, order) ==
    IF filepath \notin FilePaths \/ fs[filepath] = NoFile
    THEN [vars |-> variables, ret |-> Err(<<"File doesn't exist">>)]
    ELSE IF fs[filepath] = Malformed
    THEN [vars |-> variables, ret |-> Err(<<"JSON parse error: ", "what">>)]
    ELSE LET done == LoadLoop(variables, fs[filepath], order, 1, <<>>)
         IN  IF done.errors # <<>>
             THEN [vars |-> done.vars, ret |-> Err(ErrorMsg(done.errors))]
             ELSE [vars |-> done.vars, ret |-> Ok(Void)]

\* Save(): the wrapper over SaveToFile with the default path
Save(variables, fs, configPath, order) ==
    IF configPath = ""
    THEN [files |-> fs, ret |-> Err(<<"No config path set. Use SetConfigPath() first.">>)]
    ELSE SaveToFile(variables, fs, configPath, order)

\* Load(): the wrapper over LoadFromFile with the default path
Load(variables, fs, configPath, order) ==
    IF configPath = ""
    THEN [vars |-> variables, ret |-> Err(<<"No config path set. Use SetConfigPath() first.">>)]
    ELSE LoadFromFile(variables, fs, configPath, order)

-----------------------------------------------------------------------------
(* Inputs *)

\* paths handed to the registry: the empty path, the configuration file and
\* a path in a directory that does not exist
Paths == FilePaths \cup {"", "nodir/config.json"}

N_s == <<"s">>

N_sp == <<"s", ".", "p">>

N_sqp == <<"s", ".", "q", ".", "p">>

Names == {N_s, N_sp, N_sqp}

Types == {"int", "bool", "string"}

\* The registrations a client makes, as main.cpp does with the CONFIG_*
\* macros (which pass no description) or with the constructor directly.
\* As in main.cpp, a default need not satisfy the variable's own range.
Registrations ==
    [int_sp  |-> [T |-> "int", name |-> N_sp, def |-> 1, validator |-> IntRanged(0, 2),
                  description |-> Nullopt, readOnly |-> FALSE],
     int_sqp |-> [T |-> "int", name |-> N_sqp, def |-> 2, validator |-> IntRanged(0, 2),
                  description |-> Nullopt, readOnly |-> FALSE],
     ro_s    |-> [T |-> "int", name |-> N_s, def |-> 3, validator |-> IntRanged(0, 2),
                  description |-> Nullopt, readOnly |-> TRUE],
     bool_sp |-> [T |-> "bool", name |-> N_sp, def |-> FALSE, validator |-> BooleanShortcut,
                  description |-> Nullopt, readOnly |-> FALSE],
     str_s   |-> [T |-> "string", name |-> N_s, def |-> <<"x">>, validator |-> StringNonEmpty,
                  description |-> Some("d"), readOnly |-> FALSE]]

\* the CConfigVariable<T> a registration constructs
NewVariable(r) ==
    WithReadOnly(CConfigVariable(r.T, r.name, r.def, r.validator, r.description), r.readOnly)

\* raw strings handed to Set
RawValues == {<<" ", "2", " ">>, <<"7">>, <<"x">>, <<>>}

JNumber(n) == JLeaf("number", n)

JString(str) == JLeaf("string", str)

\* documents a user may have put in the configuration file
DocA == JObject(N_s :> JObject(<<"p">> :> JNumber(7) @@ <<"q">> :> JObject(<<"p">> :> JNumber(1))))

DocB == JObject(N_s :> JString(<<"y">>))

UserFiles == {DocA, DocB, Malformed}

-----------------------------------------------------------------------------
(* State.  `last` is the latest call, its arguments and what it returned;  *)
(* pc, call and m_Mutex belong to the threaded specification and `run` to  *)
(* the pipeline specification; they rest here.                             *)

Threads == 1..NThreads

NoCall == [op |-> "none"]

\* no invocation of a pipeline under way
NoRun == [at |-> "idle"]

Init ==
    /\ m_Variables = <<>>
    /\ m_ConfigPath = ""
    /\ files = [f \in FilePaths |-> NoFile]
    /\ last = NoCall
    /\ pc = [t \in Threads |-> "idle"]
    /\ call = [t \in Threads |-> NoCall]
    /\ m_Mutex = 0
    /\ run = NoRun

Quiet == UNCHANGED <<pc, call, m_Mutex, run>>

-----------------------------------------------------------------------------
(* One action per call of a public operation, run to completion under the  *)
(* registry mutex.                                                         *)

RegisterCall(id) ==
    LET r == Register(m_Variables, NewVariable(Registrations[id]))
    IN  /\ Cardinality(DOMAIN m_Variables) < MaxVars \/ ~r.ret
        /\ m_Variables' = r.vars
        /\ last' = [op |-> "Register", name |-> Registrations[id].name, id |-> id,
                    inserted |-> r.ret]
        /\ UNCHANGED <<m_ConfigPath, files>>
        /\ Quiet

GetCall(T, name) ==
    /\ last' = [op |-> "Get", name |-> name, T |-> T, value |-> Get(m_Variables, T, name)]
    /\ UNCHANGED <<m_Variables, m_ConfigPath, files>>
    /\ Quiet

SetCall(name, value) ==
    LET r == Set(m_Variables, name, value)
    IN  /\ m_Variables' = r.vars
        /\ last' = [op |-> "Set", name |-> name, raw |-> value, result |-> r.ret]
        /\ UNCHANGED <<m_ConfigPath, files>>
        /\ Quiet

GetAsStringCall(name) ==
    /\ last' = [op |-> "GetAsString", name |-> name, text |-> GetAsString(m_Variables, name)]
    /\ UNCHANGED <<m_Variables, m_ConfigPath, files>>
    /\ Quiet

ResetCall(name) ==
    LET r == RegistryReset(m_Variables, name)
    IN  /\ m_Variables' = r.vars
        /\ last' = [op |-> "Reset", name |-> name, old |-> GetAsString(m_Variables, name),
                    found |-> r.ret]
        /\ UNCHANGED <<m_ConfigPath, files>>
        /\ Quiet

ResetAllCall ==
    /\ m_Variables' = ResetAll(m_Variables)
    /\ last' = [op |-> "ResetAll"]
    /\ UNCHANGED <<m_ConfigPath, files>>
    /\ Quiet

GetInfoCall(name) ==
    /\ last' = [op |-> "GetInfo", name |-> name, info |-> GetInfo(m_Variables, name)]
    /\ UNCHANGED <<m_Variables, m_ConfigPath, files>>
    /\ Quiet

SaveToFileCall(filepath) ==
    \E order \in Orders(m_Variables) :
        LET r == SaveToFile(m_Variables, files, filepath, order)
        IN  /\ files' = r.files
            /\ last' = [op |-> "SaveToFile", path |-> filepath, result |-> r.ret]
            /\ UNCHANGED <<m_Variables, m_ConfigPath>>
            /\ Quiet

LoadFromFileCall(filepath) ==
    \E order \in Orders(m_Variables) :
        LET r == LoadFromFile(m_Variables, files, filepath, order)
        IN  /\ m_Variables' = r.vars
            /\ last' = [op |-> "LoadFromFile", path |-> filepath, result |-> r.ret]
            /\ UNCHANGED <<m_ConfigPath, files>>
            /\ Quiet

SetConfigPathCall(path) ==
    /\ m_ConfigPath' = path
    /\ last' = [op |-> "SetConfigPath", path |-> path]
    /\ UNCHANGED <<m_Variables, files>>
    /\ Quiet

GetConfigPathCall ==
    /\ last' = [op |-> "GetConfigPath", path |-> m_ConfigPath]
    /\ UNCHANGED <<m_Variables, m_ConfigPath, files>>
    /\ Quiet

ExistsCall(name) ==
    /\ last' = [op |-> "Exists", name |-> name, found |-> Exists(m_Variables, name)]
    /\ UNCHANGED <<m_Variables, m_ConfigPath, files>>
    /\ Quiet

SaveCall ==
    \E order \in Orders(m_Variables) :
        LET r == Save(m_Variables, files, m_ConfigPath, order)
        IN  /\ files' = r.files
            /\ last' = [op |-> "Save", result |-> r.ret]
            /\ UNCHANGED <<m_Variables, m_ConfigPath>>
            /\ Quiet

LoadCall ==
    \E order \in Orders(m_Variables) :
        LET r == Load(m_Variables, files, m_ConfigPath, order)
        IN  /\ m_Variables' = r.vars
            /\ last' = [op |-> "Load", result |-> r.ret]
            /\ UNCHANGED <<m_ConfigPath, files>>
            /\ Quiet

\* the user edits the configuration file between runs of the operations
EditFile(filepath, content) ==
    /\ files' = [files EXCEPT ![filepath] = content]
    /\ last' = [op |-> "EditFile", path |-> filepath]
    /\ UNCHANGED <<m_Variables, m_ConfigPath>>
    /\ Quiet

Next ==
    \/ \E id \in DOMAIN Registrations : RegisterCall(id)
    \/ \E T \in Types, name \in Names : GetCall(T, name)
    \/ \E name \in Names, value \in RawValues : SetCall(name, value)
    \/ \E name \in Names : GetAsStringCall(name)
    \/ \E name \in Names : ResetCall(name)
    \/ ResetAllCall
    \/ \E name \in Names : GetInfoCall(name)
    \/ \E name \in Names : ExistsCall(name)
    \/ \E path \in Paths : SetConfigPathCall(path)
    \/ GetConfigPathCall
    \/ \E filepath \in Paths : SaveToFileCall(filepath)
    \/ SaveCall
    \/ \E filepath \in Paths : LoadFromFileCall(filepath)
    \/ LoadCall
    \/ \E filepath \in FilePaths, content \in UserFiles : EditFile(filepath, content)

Spec == Init /\ [][Next]_vars

-----------------------------------------------------------------------------
(* The threaded specification: client threads call the public operations.  *)
(* A thread is "idle", at "entry" of an operation whose first statement is *)
(* the lock_guard (waiting for m_Mutex), "locked" (inside the critical     *)
(* section, the body still to run), or at "Save_check" / "Load_check": in  *)
(* Save() / Load(), about to evaluate m_ConfigPath.empty().  m_Mutex is    *)
(* the thread holding the mutex, 0 when it is free.  Return values are     *)
(* observed in Spec; here `last` and `run` rest.                           *)

\* the calls the threads make, one per public operation that locks first
ThreadCalls ==
    {[op |-> "SetConfigPath", path |-> "config.json"],
     [op |-> "GetConfigPath"],
     [op |-> "Register", id |-> "int_sp"],
     [op |-> "Get", name |-> N_sp, T |-> "int"],
     [op |-> "Set", name |-> N_sp, value |-> <<"7">>],
     [op |-> "Exists", name |-> N_sp],
     [op |-> "GetAsString", name |-> N_sp],
     [op |-> "Reset", name |-> N_sp],
     [op |-> "ResetAll"],
     [op |-> "GetInfo", name |-> N_sp],
     [op |-> "SaveToFile", path |-> "config.json"],
     [op |-> "LoadFromFile", path |-> "config.json"]}

ReadOps == {"GetConfigPath", "Get", "Exists", "GetAsString", "GetInfo"}

\* SaveToFile / LoadFromFile as called by the wrappers: filepath is a
\* reference to m_ConfigPath, read inside the callee
ByReference(op) == [op |-> op, path |-> "m_ConfigPath"]

FilePathOf(c) == IF c.path = "m_ConfigPath" THEN m_ConfigPath ELSE c.path

\* another thread is inside SetConfigPath, about to assign m_ConfigPath
PathWriter(t) ==
    \E u \in Threads : u # t /\ pc[u] = "locked" /\ call[u].op = "SetConfigPath"

\* a thread calls an operation and meets its lock_guard
Call(t, c) ==
    /\ pc[t] = "idle"
    /\ pc' = [pc EXCEPT ![t] = "entry"]
    /\ call' = [call EXCEPT ![t] = c]
    /\ UNCHANGED <<m_Variables, m_ConfigPath, files, last, run, m_Mutex>>

\* std::lock_guard lock(m_Mutex)
Lock(t) ==
    /\ pc[t] = "entry"
    /\ m_Mutex = 0
    /\ m_Mutex' = t
    /\ pc' = [pc EXCEPT ![t] = "locked"]
    /\ UNCHANGED <<m_Variables, m_ConfigPath, files, last, run, call>>

\* the end of the operation: the lock_guard releases the mutex
Unlock(t) ==
    /\ m_Mutex' = 0
    /\ pc' = [pc EXCEPT ![t] = "idle"]
    /\ call' = [call EXCEPT ![t] = NoCall]

\* the bodies of the operations, run to their return
ReturnSetConfigPath(t) ==
    /\ pc[t] = "locked" /\ call[t].op = "SetConfigPath"
    /\ m_ConfigPath' = call[t].path
    /\ Unlock(t)
    /\ UNCHANGED <<m_Variables, files, last, run>>

ReturnRead(t) ==
    /\ pc[t] = "locked" /\ call[t].op \in ReadOps
    /\ Unlock(t)
    /\ UNCHANGED <<m_Variables, m_ConfigPath, files, last, run>>

ReturnRegister(t) ==
    /\ pc[t] = "locked" /\ call[t].op = "Register"
    /\ m_Variables' = Register(m_Variables, NewVariable(Registrations[call[t].id])).vars
    /\ Unlock(t)
    /\ UNCHANGED <<m_ConfigPath, files, last, run>>

ReturnSet(t) ==
    /\ pc[t] = "locked" /\ call[t].op = "Set"
    /\ m_Variables' = Set(m_Variables, call[t].name, call[t].value).vars
    /\ Unlock(t)
    /\ UNCHANGED <<m_ConfigPath, files, last, run>>

ReturnReset(t) ==
    /\ pc[t] = "locked" /\ call[t].op \in {"Reset", "ResetAll"}
    /\ m_Variables' = IF call[t].op = "Reset"
                      THEN RegistryReset(m_Variables, call[t].name).vars
                      ELSE ResetAll(m_Variables)
    /\ Unlock(t)
    /\ UNCHANGED <<m_ConfigPath, files, last, run>>

ReturnSaveToFile(t) ==
    /\ pc[t] = "locked" /\ call[t].op = "SaveToFile"
    /\ \E order \in Orders(m_Variables) :
         files' = SaveToFile(m_Variables, files, FilePathOf(call[t]), order).files
    /\ Unlock(t)
    /\ UNCHANGED <<m_Variables, m_ConfigPath, last, run>>

ReturnLoadFromFile(t) ==
    /\ pc[t] = "locked" /\ call[t].op = "LoadFromFile"
    /\ \E order \in Orders(m_Variables) :
         m_Variables' = LoadFromFile(m_Variables, files, FilePathOf(call[t]), order).vars
    /\ Unlock(t)
    /\ UNCHANGED <<m_ConfigPath, files, last, run>>

\* a thread enters Save() or Load(): no lock is taken there
CallWrapper(t, op) ==
    /\ pc[t] = "idle"
    /\ pc' = [pc EXCEPT ![t] = IF op = "Save" THEN "Save_check" ELSE "Load_check"]
    /\ UNCHANGED <<m_Variables, m_ConfigPath, files, last, run, call, m_Mutex>>

\* Save() / Load() that take the lock_guard themselves before the check and
\* hold it across the call of SaveToFile / LoadFromFile
CheckPathHoldsLock(t) ==
    /\ pc[t] \in {"Save_check", "Load_check"}
    /\ m_Mutex = 0
    /\ IF m_ConfigPath = ""
       THEN /\ pc' = [pc EXCEPT ![t] = "idle"]
            /\ UNCHANGED <<call, m_Mutex>>
       ELSE /\ pc' = [pc EXCEPT ![t] = "entry"]
            /\ m_Mutex' = t
            /\ call' = [call EXCEPT ![t] =
                          ByReference(IF pc[t] = "Save_check" THEN "SaveToFile"
                                      ELSE "LoadFromFile")]
    /\ UNCHANGED <<m_Variables, m_ConfigPath, files, last, run>>

\* if (m_ConfigPath.empty()) return error; return XToFile(m_ConfigPath);
\* The read is unsynchronised: while another thread assigns m_ConfigPath it
\* is a data race, and either answer may come out.
CheckPath(t) ==
    /\ pc[t] \in {"Save_check", "Load_check"}
    /\ \E empty \in (IF PathWriter(t) THEN BOOLEAN ELSE {m_ConfigPath = ""}) :
         IF empty
         THEN /\ pc' = [pc EXCEPT ![t] = "idle"]
              /\ UNCHANGED call
         ELSE /\ pc' = [pc EXCEPT ![t] = "entry"]
              /\ call' = [call EXCEPT ![t] =
                            ByReference(IF pc[t] = "Save_check" THEN "SaveToFile"
                                        ELSE "LoadFromFile")]
    /\ UNCHANGED <<m_Variables, m_ConfigPath, files, last, run, m_Mutex>>

ThreadNext ==
    \/ \E t \in Threads, c \in ThreadCalls : Call(t, c)
    \/ \E t \in Threads : Lock(t)
    \/ \E t \in Threads : ReturnSetConfigPath(t)
    \/ \E t \in Threads : ReturnRead(t)
    \/ \E t \in Threads : ReturnRegister(t)
    \/ \E t \in Threads : ReturnSet(t)
    \/ \E t \in Threads : ReturnReset(t)
    \/ \E t \in Threads : ReturnSaveToFile(t)
    \/ \E t \in Threads : ReturnLoadFromFile(t)
    \/ \E t \in Threads, op \in {"Save", "Load"} : CallWrapper(t, op)
    \/ \E t \in Threads : CheckPath(t)

SpecThreads == Init /\ [][ThreadNext]_vars

\* a thread inside an operation takes its next step; at most one of these
\* is possible for a thread at any time
Proceed(t) ==
    \/ ReturnSetConfigPath(t)
    \/ ReturnRead(t)
    \/ ReturnRegister(t)
    \/ ReturnSet(t)
    \/ ReturnReset(t)
    \/ ReturnSaveToFile(t)
    \/ ReturnLoadFromFile(t)
    \/ CheckPath(t)

\* a thread is inside an operation and not waiting for the mutex: this is
\* ENABLED <<Proceed(t)>>_vars, every call having its Return step
Running(t) == pc[t] \in {"locked", "Save_check", "Load_check"}

\* Fair scheduling: a thread inside an operation keeps running (weak
\* fairness on Proceed, written out with Running for its enabling
\* condition), and a thread waiting for the mutex gets it if the mutex is
\* free again and again (strong fairness on Lock: the waiter is not passed
\* over for ever).  Nothing obliges a client to call.
ThreadFairness ==
    \A t \in Threads :
        /\ SF_vars(Lock(t))
        /\ ([]<>(~Running(t)) \/ []<><<Proceed(t)>>_vars)

SpecThreadsFair == Init /\ [][ThreadNext]_vars /\ ThreadFairness

-----------------------------------------------------------------------------
(* The pipeline specification: ValidatorPipeline::operator() taken one     *)
(* statement at a time.  `run` is the invocation under way: the pipeline   *)
(* p, the argument `input`, the locals `value` and `finalValue`, the       *)
(* position (`at` and the loop index i), and `trace`, the calls made to    *)
(* the stages so far, each with what it was given and what it returned.    *)

\* sequences over S of length at most n
SeqsUpTo(S, n) == UNION {[1..k -> S] : k \in 0..n}

\* typed validators a client adds: Range(0, 2), Range(1, 1), CustomTyped
TypedStages == {[min |-> 0, max |-> 2], [min |-> 1, max |-> 1], [add |-> 1]}

\* the pipelines a ValidatorBuilder<int> or ValidatorBuilder<bool> yields
\* from Trim(), NotEmpty(), Integer() or Boolean(), Range() and
\* CustomTyped() in any order and number, the parser possibly never set
Pipelines ==
    {[sv |-> s, parser |-> q, tv |-> t] :
        s \in SeqsUpTo({"Trim", "NotEmpty"}, MaxStages),
        q \in {"none", "Integer"},
        t \in SeqsUpTo(TypedStages, MaxStages)}
    \cup {[sv |-> s, parser |-> "Boolean", tv |-> <<>>] :
        s \in SeqsUpTo({"Trim", "NotEmpty"}, MaxStages)}

\* the pipelines the named shortcuts build (for T = int, std::string, bool)
Shortcuts == {IntRanged(0, 2), StringNonEmpty, BooleanShortcut}

PipelineInputs == RawValues \cup {<<" ">>, <<"1">>, <<" ", "1">>}

\* the type T of the pipeline, fixed by its parser
ParserType(kind) == IF kind = "Integer" THEN "int" ELSE "bool"

\* what a stage returned, as std::expected over a value of its type
Boxed(T, result) == IF result.ok THEN Ok(Box(T, result.v)) ELSE Err(result.e)

RegistryQuiet == UNCHANGED <<m_Variables, m_ConfigPath, files, last, pc, call, m_Mutex>>

\* operator()(value) is called
Invoke(p, value) ==
    /\ run.at = "idle"
    /\ run' = [at |-> "string", p |-> p, input |-> value, value |-> value,
               finalValue |-> [unset |-> TRUE], i |-> 1, trace |-> <<>>,
               result |-> [pending |-> TRUE]]
    /\ RegistryQuiet

StepStringValidatorGoesOn ==
    /\ run.at = "string" /\ run.i <= Len(run.p.sv)
    /\ LET result == StringStage(run.p.sv[run.i], run.value)
           entry  == [stage |-> [kind |-> "string", i |-> run.i],
                      in |-> Box("string", run.value),
                      out |-> Boxed("string", result)]
       IN  run' = [run EXCEPT !.trace = Append(@, entry),
                              !.value = IF result.ok THEN result.v ELSE @,
                              !.i = @ + 1]
    /\ RegistryQuiet

\* one turn of the loop over m_StringValidators
StepStringValidator ==
    /\ run.at = "string" /\ run.i <= Len(run.p.sv)
    /\ LET result == StringStage(run.p.sv[run.i], run.value)
           entry  == [stage |-> [kind |-> "string", i |-> run.i],
                      in |-> Box("string", run.value),
                      out |-> Boxed("string", result)]
       IN  IF ~result.ok
           THEN run' = [run EXCEPT !.trace = Append(@, entry),
                                   !.at = "done", !.result = Err(result.e)]
           ELSE run' = [run EXCEPT !.trace = Append(@, entry),
                                   !.value = result.v, !.i = @ + 1]
    /\ RegistryQuiet

\* the loop is over: if (!m_Parser) return "No parser configured"
CheckParser ==
    /\ run.at = "string" /\ run.i > Len(run.p.sv)
    /\ IF run.p.parser = "none"
       THEN run' = [run EXCEPT !.at = "done", !.result = Err(<<"No parser configured">>)]
       ELSE run' = [run EXCEPT !.at = "parser"]
    /\ RegistryQuiet

\* auto parsed = m_Parser(value)
StepParser ==
    /\ run.at = "parser"
    /\ LET T      == ParserType(run.p.parser)
           parsed == Parse(run.p.parser, run.value)
           entry  == [stage |-> [kind |-> "parser", i |-> 0],
                      in |-> Box("string", run.value),
                      out |-> Boxed(T, parsed)]
       IN  IF ~parsed.ok
           THEN run' = [run EXCEPT !.trace = Append(@, entry),
                                   !.at = "done", !.result = Err(parsed.e)]
           ELSE run' = [run EXCEPT !.trace = Append(@, entry),
                                   !.finalValue = Box(T, parsed.v),
                                   !.at = "typed", !.i = 1]
    /\ RegistryQuiet

\* one turn of the loop over m_TypedValidators
StepTypedValidator ==
    /\ run.at = "typed" /\ run.i <= Len(run.p.tv)
    /\ LET T      == ParserType(run.p.parser)
           result == TypedStage(run.p.tv[run.i], Unbox(T, run.finalValue))
           entry  == [stage |-> [kind |-> "typed", i |-> run.i],
                      in |-> run.finalValue,
                      out |-> Boxed(T, result)]
       IN  IF ~result.ok
           THEN run' = [run EXCEPT !.trace = Append(@, entry),
                                   !.at = "done", !.result = Err(result.e)]
           ELSE run' = [run EXCEPT !.trace = Append(@, entry),
                                   !.finalValue = Box(T, result.v), !.i = @ + 1]
    /\ RegistryQuiet

\* return finalValue
ReturnFinalValue ==
    /\ run.at = "typed" /\ run.i > Len(run.p.tv)
    /\ run' = [run EXCEPT !.at = "done", !.result = Ok(run.finalValue)]
    /\ RegistryQuiet

\* the caller has the result; the pipeline itself keeps no state between
\* invocations (operator() is const)
TakeResult ==
    /\ run.at = "done"
    /\ run' = NoRun
    /\ RegistryQuiet

PipelineNext ==
    \/ \E p \in Pipelines, value \in PipelineInputs : Invoke(p, value)
    \/ StepStringValidator
    \/ CheckParser
    \/ StepParser
    \/ StepTypedValidator
    \/ ReturnFinalValue
    \/ TakeResult

SpecPipeline == Init /\ [][PipelineNext]_vars

-----------------------------------------------------------------------------
(* The dotted-name convention as the specification words it (section 6):   *)
(* a name is split on each '.', and the segments are the nesting path.     *)

RECURSIVE SplitOnDots(_)
SplitOnDots(name) ==
    LET dot == Find(name, ".", 0)
    IN  IF dot = npos THEN <<name>>
        ELSE <<SubSeq(name, 1, dot)>> \o SplitOnDots(SubSeq(name, dot + 2, Len(name)))

\* the value a document holds at a nesting path, if any
RECURSIVE EntryAt(_, _)
EntryAt(node, segments) ==
    IF ~IsObject(node) \/ Head(segments) \notin DOMAIN node.object THEN Nullopt
    ELSE IF Len(segments) = 1 THEN Some(node.object[Head(segments)])
    ELSE EntryAt(node.object[Head(segments)], Tail(segments))

IsPrefix(a, b) == Len(a) <= Len(b) /\ SubSeq(b, 1, Len(a)) = a

\* no name is a dotted prefix of another
PrefixFree(names) ==
    \A a, b \in names : a # b => ~IsPrefix(a \o <<".">>, b)

IsDocument(content) == content # NoFile /\ content # Malformed

-----------------------------------------------------------------------------
(* Claims *)

\* C1: a successful Set(name, s) on a registered (writable) variable whose
\* pipeline turns s into v stores v: the next Get<T>(name) returns v and
\* the next GetAsString(name) its rendering.
C1_SetStoresValue ==
    (last.op = "Set" /\ last.result.ok /\ ~ReadOnly(m_Variables[last.name])) =>
        LET var == m_Variables[last.name]
            v   == RunPipeline(var.m_Validator, last.raw).v
        IN  /\ Get(m_Variables, var.type, last.name) = Some(Box(var.type, v))
            /\ GetAsString(m_Variables, last.name) = Some(Render(var.type, v))

\* C2: Register returns true and inserts the variable iff the name is not
\* registered yet; under a registered name it returns false and leaves the
\* registry as it was (names, and each variable's type, value, default and
\* description).
C2_Register ==
    [][last'.op = "Register" =>
        LET name == last'.name
        IN  /\ last'.inserted = (name \notin DOMAIN m_Variables)
            /\ last'.inserted =>
                 /\ DOMAIN m_Variables' = DOMAIN m_Variables \cup {name}
                 /\ m_Variables'[name] = NewVariable(Registrations[last'.id])
                 /\ \A n \in DOMAIN m_Variables : m_Variables'[n] = m_Variables[n]
            /\ ~last'.inserted => m_Variables' = m_Variables]_vars

\* a registration of another type was refused, and the variable first
\* registered is there with a value that is not its default
C2_Witness ==
    /\ last.op = "Register"
    /\ ~last.inserted
    /\ Registrations[last.id].T # m_Variables[last.name].type
    /\ m_Variables[last.name].m_Value # m_Variables[last.name].m_DefaultValue

\* C3: a failing Set changes no variable; on an unregistered name the error
\* is "Variable '<name>' not found", on a registered name whose pipeline
\* rejects the string it is the pipeline's error.
C3_FailingSet ==
    [][last'.op = "Set" =>
        LET name == last'.name
        IN  /\ name \notin DOMAIN m_Variables =>
                 last'.result = Err(<<"Variable '", name, "' not found">>)
            /\ (name \in DOMAIN m_Variables
                 /\ ~RunPipeline(m_Variables[name].m_Validator, last'.raw).ok) =>
                 last'.result = Err(RunPipeline(m_Variables[name].m_Validator, last'.raw).e)
            /\ ~last'.result.ok => m_Variables' = m_Variables]_vars

\* a Set rejected by the range check, on a variable whose value is not its
\* default
C3_Witness ==
    /\ last.op = "Set"
    /\ ~last.result.ok
    /\ last.name \in DOMAIN m_Variables
    /\ m_Variables[last.name].m_Value # m_Variables[last.name].m_DefaultValue
    /\ last.result.e = <<"Value should be >=", <<"0">>, " and <=", <<"2">>>>

C5_Get ==
    [][last'.op = "Get" =>
        LET name == last'.name
        IN  /\ UNCHANGED <<m_Variables, m_ConfigPath, files>>
            /\ last'.value = IF name \in DOMAIN m_Variables
                                  /\ m_Variables[name].type = last'.T
                             THEN Some(m_Variables[name].m_Value)
                             ELSE Nullopt]_vars

\* Get<T> on a variable of another type came back empty
C5_Witness ==
    /\ last.op = "Get"
    /\ last.name \in DOMAIN m_Variables
    /\ m_Variables[last.name].type # last.T
    /\ last.value = Nullopt

\* C6: after Reset(name) on a registered variable, read-only or not, the
\* value is the default fixed at construction and ValueAsString equals
\* DefaultValueAsString; Reset on an unregistered name returns false and
\* changes nothing; ResetAll leaves every variable at its default.
C6_Reset ==
    [][/\ last'.op = "Reset" =>
            LET name == last'.name
            IN  IF name \in DOMAIN m_Variables
                THEN /\ last'.found = TRUE
                     /\ m_Variables'[name].m_Value = m_Variables[name].m_DefaultValue
                     /\ m_Variables'[name].m_DefaultValue = m_Variables[name].m_DefaultValue
                     /\ ValueAsString(m_Variables'[name]) =
                            DefaultValueAsString(m_Variables'[name])
                ELSE last'.found = FALSE /\ m_Variables' = m_Variables
       /\ last'.op = "ResetAll" =>
            /\ DOMAIN m_Variables' = DOMAIN m_Variables
            /\ \A n \in DOMAIN m_Variables :
                 /\ m_Variables'[n].m_Value = m_Variables[n].m_DefaultValue
                 /\ m_Variables'[n].m_DefaultValue = m_Variables[n].m_DefaultValue
                 /\ ValueAsString(m_Variables'[n]) = DefaultValueAsString(m_Variables'[n])
      ]_vars

\* a Reset that brought a changed value back to the default
C6_Witness ==
    /\ last.op = "Reset"
    /\ last.found = TRUE
    /\ last.old # Some(DefaultValueAsString(m_Variables[last.name]))
    /\ ValueAsString(m_Variables[last.name]) = DefaultValueAsString(m_Variables[last.name])

\* C7: SaveToFile(p) followed immediately by LoadFromFile(p) leaves every
\* variable with the value it had before the save.
C7_RoundTrip ==
    [][(/\ last.op = "SaveToFile" /\ last.result.ok
        /\ last'.op = "LoadFromFile" /\ last'.path = last.path)
       => \A n \in DOMAIN m_Variables : m_Variables'[n].m_Value = m_Variables[n].m_Value]_vars

\* C8: SaveToFile puts the value of each variable at the nesting path given
\* by splitting its name on every '.' (stated for sets of names none of
\* which is a dotted prefix of another, where every name has its own place).
C8_SavePlacement ==
    (last.op = "SaveToFile" /\ last.result.ok /\ PrefixFree(DOMAIN m_Variables)) =>
        \A n \in DOMAIN m_Variables :
            EntryAt(files[last.path], SplitOnDots(n)) = Some(ValueAsJson(m_Variables[n]))

\* the variables whose document entry is rejected by the typed set
C9_Failed(variables, doc) ==
    {n \in DOMAIN variables :
        /\ EntryAt(doc, SplitOnDots(n)).has
        /\ ~TrySetJson(variables[n], EntryAt(doc, SplitOnDots(n)).v).ret.ok}

\* C9: LoadFromFile on an existing well-formed document works variable by
\* variable: no entry under the dotted name, the variable is untouched; an
\* entry that passes validation, the variable takes the document value; an
\* entry that fails, it keeps its value.  The call succeeds iff no entry
\* failed, and else returns one error with a `name: message` line for
\* exactly the variables whose entries failed.
C9_Load ==
    [][(last'.op = "LoadFromFile" /\ last'.path \in FilePaths
            /\ IsDocument(files[last'.path])) =>
        LET doc    == files[last'.path]
            failed == C9_Failed(m_Variables, doc)
        IN  /\ DOMAIN m_Variables' = DOMAIN m_Variables
            /\ \A n \in DOMAIN m_Variables :
                 LET entry == EntryAt(doc, SplitOnDots(n))
                 IN  IF entry.has /\ n \notin failed
                     THEN /\ ValueAsJson(m_Variables'[n]) = entry.v
                          /\ m_Variables'[n] =
                                [m_Variables[n] EXCEPT !.m_Value = m_Variables'[n].m_Value]
                     ELSE m_Variables'[n] = m_Variables[n]
            /\ last'.result.ok = (failed = {})
            /\ ~last'.result.ok =>
                 /\ last'.result.e[1] = "Some variables failed to load:\n"
                 /\ Len(last'.result.e[2]) = Cardinality(failed)
                 /\ \A n \in failed :
                      \E i \in DOMAIN last'.result.e[2] :
                          last'.result.e[2][i] =
                              <<" - ",
                                <<n, ": ",
                                  TrySetJson(m_Variables[n], EntryAt(doc, SplitOnDots(n)).v).ret.e>>,
                                "\n">>]_vars

\* a load that updated one variable from the document and reported another
C9_Witness ==
    /\ last.op = "LoadFromFile"
    /\ ~last.result.ok
    /\ last.result.e[1] = "Some variables failed to load:\n"
    /\ Len(last.result.e[2]) = 1
    /\ \E n \in DOMAIN m_Variables :
         /\ EntryAt(files[last.path], SplitOnDots(n)) = Some(ValueAsJson(m_Variables[n]))
         /\ m_Variables[n].m_Value # m_Variables[n].m_DefaultValue
         /\ last.result.e[2][1][2][1] # n
    /\ \E n \in DOMAIN m_Variables : last.result.e[2][1][2][1] = n

\* C10: every public operation holds the registry mutex whenever it reads
\* or writes m_Variables or m_ConfigPath; in particular Save() and Load()
\* never read the config path while another thread's SetConfigPath writes it.
C10_PathReadUnderMutex ==
    \A t \in Threads :
        (pc[t] \in {"Save_check", "Load_check"} /\ PathWriter(t)) => m_Mutex = t

\* the stages of a pipeline in the order the specification fixes: the
\* string validators as registered, the parser, the typed validators as
\* registered (without a parser nothing runs after the string validators)
StagesOf(p) ==
    [k \in 1..Len(p.sv) |-> [kind |-> "string", i |-> k]]
    \o (IF p.parser = "none" THEN <<>>
        ELSE <<[kind |-> "parser", i |-> 0]>>
             \o [k \in 1..Len(p.tv) |-> [kind |-> "typed", i |-> k]])

\* what a stage of p returns on a given (boxed) argument
StageOutput(p, stage, in) ==
    IF stage.kind = "string" THEN Boxed("string", StringStage(p.sv[stage.i], in.string))
    ELSE IF stage.kind = "parser"
    THEN Boxed(ParserType(p.parser), Parse(p.parser, in.string))
    ELSE Boxed(ParserType(p.parser),
               TypedStage(p.tv[stage.i], Unbox(ParserType(p.parser), in)))

\* C11: an invocation runs the stages in the fixed order (string validators
\* as registered, parser, typed validators as registered), the first on the
\* argument and each next one on the previous one's output, and runs
\* nothing after a failure; it returns the first error met, "No parser
\* configured" when the string validators passed and no parser is set, and
\* else the output of the last stage.
C11_StageOrder ==
    run.at # "idle" =>
        LET st == StagesOf(run.p)
            tr == run.trace
        IN  /\ Len(tr) <= Len(st)
            /\ \A k \in 1..Len(tr) :
                 /\ tr[k].stage = st[k]
                 /\ tr[k].in = (IF k = 1 THEN Box("string", run.input) ELSE tr[k - 1].out.v)
                 /\ tr[k].out = StageOutput(run.p, st[k], tr[k].in)
                 /\ k < Len(tr) => tr[k].out.ok
            /\ run.at = "done" =>
                 IF tr # <<>> /\ ~tr[Len(tr)].out.ok
                 THEN run.result = Err(tr[Len(tr)].out.e)
                 ELSE IF run.p.parser = "none"
                 THEN /\ Len(tr) = Len(run.p.sv)
                      /\ run.result = Err(<<"No parser configured">>)
                 ELSE /\ Len(tr) = Len(st)
                      /\ run.result = Ok(tr[Len(tr)].out.v)
                      /\ Unbox(ParserType(run.p.parser), run.result.v)
                            = RunPipeline(run.p, run.input).v
            /\ run.at = "done" => run.result.ok = RunPipeline(run.p, run.input).ok
            /\ (run.at = "done" /\ ~run.result.ok) =>
                 run.result.e = RunPipeline(run.p, run.input).e

\* an invocation whose two string validators and parser passed, whose first
\* typed validator changed the value and whose second one rejected it
C11_Witness ==
    /\ run.at = "done"
    /\ ~run.result.ok
    /\ Len(run.p.sv) = 2 /\ Len(run.p.tv) = 2
    /\ Len(run.trace) = 5
    /\ run.trace[1].out.v # run.trace[1].in
    /\ run.trace[4].out.v # run.trace[4].in

\* C12: a pipeline built by a named shortcut has the stages Trim, NotEmpty,
\* parse and (ranged shortcuts) bound-check, so that no invocation of it
\* fails with "No parser configured", and StringNonEmpty
\* accepts every string that is non-empty after trimming and yields the
\* trimmed string.
C12_Shortcuts ==
    (run.at = "done" /\ run.p \in Shortcuts) =>
        /\ run.p.sv = <<"Trim", "NotEmpty">>
        /\ run.result # Err(<<"No parser configured">>)
        /\ (run.p = StringNonEmpty /\ TrimStage(run.input).v # <<>>) =>
              run.result = Ok(Box("string", TrimStage(run.input).v))

\* C13: SaveToFile and LoadFromFile split a dotted name the same way: when
\* no registered name is a dotted prefix of another, every registered name
\* resolves, under LoadFromFile's lookup in the document SaveToFile wrote,
\* to a present entry holding the value saved for it: the entry the lookup
\* reads is the entry the save assigned, and is the entry of no other name.
C13_SameSplitting ==
    (last.op = "SaveToFile" /\ last.result.ok /\ PrefixFree(DOMAIN m_Variables)) =>
        \A n \in DOMAIN m_Variables :
            /\ GetNestedValue(files[last.path], n) = Some(ValueAsJson(m_Variables[n]))
            /\ LookupPtr(n) = SavePtr(n)
            /\ \A m \in DOMAIN m_Variables \ {n} : LookupPtr(m) # SavePtr(n)

====
